---- MODULE Spec2Model ----
(***************************************************************************)
(* Model of log_analyzer.py: LogParser, PerformanceStats, LogFilter and    *)
(* RealTimeLogAnalyzer (the ingestion thread tail_log and the viewer loop   *)
(* run_ui sharing the statistics and the filter without a lock).            *)
(*                                                                         *)
(* Text is modelled as sequences of one-character strings, so that upper(), *)
(* lower(), strip() and the substring test `in` are computed.               *)
(***************************************************************************)
EXTENDS Integers, Sequences, FiniteSets, TLC

\* ------------------------------------------------------------------ bounds
\* lines the environment appends to the log file after the loop's seek
MaxLines == 2
\* wall-clock ticks
MaxTime == 1
\* deque(maxlen=1000) of recent_logs, scaled down so that overflow happens
RecentMaxLen == 2
\* window_size (default 300), scaled down so that overflow happens
WindowSize == 1
\* lines ingested in the sequential specification
MaxIngest == 3
\* entries of LogFilter.exclude_keywords
MaxExclude == 2

\* ------------------------------------------------------------------- text
LowerAlphabet ==
    <<"a","b","c","d","e","f","g","h","i","j","k","l","m",
      "n","o","p","q","r","s","t","u","v","w","x","y","z">>

UpperAlphabet ==
    <<"A","B","C","D","E","F","G","H","I","J","K","L","M",
      "N","O","P","Q","R","S","T","U","V","W","X","Y","Z">>

\* the two case tables of str.upper() and str.lower()
ToUpper ==
    [c \in {LowerAlphabet[i] : i \in 1..26} |->
        UpperAlphabet[CHOOSE i \in 1..26 : LowerAlphabet[i] = c]]

ToLower ==
    [c \in {UpperAlphabet[i] : i \in 1..26} |->
        LowerAlphabet[CHOOSE i \in 1..26 : UpperAlphabet[i] = c]]

UpperChar(c) == IF c \in DOMAIN ToUpper THEN ToUpper[c] ELSE c

LowerChar(c) == IF c \in DOMAIN ToLower THEN ToLower[c] ELSE c

\* str.upper()
Upper(s) == [i \in 1..Len(s) |-> UpperChar(s[i])]

\* str.lower()
Lower(s) == [i \in 1..Len(s) |-> LowerChar(s[i])]

\* the substring test `sub in s`
Contains(s, sub) ==
    \E i \in 0..(Len(s) - Len(sub)) : SubSeq(s, i + 1, i + Len(sub)) = sub

Whitespace == {" ", "\n"}

RECURSIVE LStrip(_)
LStrip(s) ==
    IF s # <<>> /\ Head(s) \in Whitespace THEN LStrip(Tail(s)) ELSE s

RECURSIVE RStrip(_)
RStrip(s) ==
    IF s # <<>> /\ s[Len(s)] \in Whitespace
    THEN RStrip(SubSeq(s, 1, Len(s) - 1))
    ELSE s

\* str.strip()
Strip(s) == RStrip(LStrip(s))

\* Python's None, for an optional string
None == <<"None">>

\* truthiness of an optional string: neither None nor ""
Truthy(s) == s # None /\ s # <<>>

\* dict.get(key, default)
Get(d, k, default) == IF k \in DOMAIN d THEN d[k] ELSE default

\* d[k] += 1 on a defaultdict(int)
Incr(d, k) ==
    IF k \in DOMAIN d THEN [d EXCEPT ![k] = @ + 1] ELSE d @@ (k :> 1)

\* list.index(x): position of the first occurrence, from 0
Index(seq, x) == (CHOOSE i \in 1..Len(seq) :
                    seq[i] = x /\ \A j \in 1..(i - 1) : seq[j] # x) - 1

InList(seq, x) == \E i \in 1..Len(seq) : seq[i] = x

\* ------------------------------------------------------ severity names
EMERGENCY == <<"E","M","E","R","G","E","N","C","Y">>
ALERT == <<"A","L","E","R","T">>
CRITICAL == <<"C","R","I","T","I","C","A","L">>
ERROR == <<"E","R","R","O","R">>
WARNING == <<"W","A","R","N","I","N","G">>
NOTICE == <<"N","O","T","I","C","E">>
INFO == <<"I","N","F","O">>
DEBUG == <<"D","E","B","U","G">>

unknown == <<"u","n","k","n","o","w","n">>

\* LogParser.severity_levels, in the dict's declaration (iteration) order
severity_levels ==
    <<EMERGENCY, ALERT, CRITICAL, ERROR, WARNING, NOTICE, INFO, DEBUG>>

\* the list local to matches_filter
filter_severity_levels ==
    <<DEBUG, INFO, NOTICE, WARNING, ERROR, CRITICAL, ALERT, EMERGENCY>>

SeverityNames == {severity_levels[i] : i \in 1..Len(severity_levels)}

\* ------------------------------------------------------------ LogParser
\* the keys of LogParser.patterns
patterns == {"syslog", "apache", "nginx", "custom"}

\* A line of the file is described by the grammar its trimmed text matches
\* (fmt, "none" when it matches none), the text of the capture groups, and
\* for fmt = "none" its raw text in message.
PidClient == <<"[","p","i","d"," ","1","]"," ","[","c","l","i","e","n","t"," ","c","]"," ">>

\* the raw text of a line, as readline() returns it
RawText(line) ==
    CASE line.fmt = "syslog" ->
           line.timestamp \o <<" ","h"," ">> \o line.service \o <<":"," ">>
             \o line.level \o <<":"," ">> \o line.message \o <<"\n">>
      [] line.fmt = "apache" ->
           <<"[">> \o line.timestamp \o <<"]"," ","[">> \o line.level
             \o <<"]"," ">> \o PidClient \o line.message \o <<"\n">>
      [] line.fmt = "nginx" ->
           line.timestamp \o <<" ","[">> \o line.level
             \o <<"]"," ","1","#","1",":"," ","*","1"," ">> \o line.message \o <<"\n">>
      [] line.fmt = "custom" ->
           line.timestamp \o <<" ","-"," ">> \o line.level \o <<" ","-"," ">>
             \o line.service \o <<" ","-"," ">> \o line.message \o <<"\n">>
      [] OTHER -> line.message

\* self.patterns[log_type].match(line.strip())
match(log_type, line) == line.fmt = log_type

\* match.groupdict(): the named groups of the grammar, and no other key
groupdict(log_type, line) ==
    IF log_type \in {"syslog", "custom"}
    THEN [timestamp |-> line.timestamp, service |-> line.service,
          level |-> line.level, message |-> line.message]
    ELSE [timestamp |-> line.timestamp, level |-> line.level,
          message |-> line.message]

Digits == <<"0","1","2","3","4","5","6","7","8","9">>

\* datetime.now().strftime(...): the clock rendered as text
strftime(t) == <<"t", Digits[(t % 10) + 1]>>

\* parse_line's result when nothing is recognised (Python's None, falsy)
NoRecord == <<>>

\* the positions in the table of the levels whose text is in line.upper()
LevelsIn(text) ==
    LET up == Upper(text)
    IN {i \in 1..Len(severity_levels) : Contains(up, severity_levels[i])}

HasLevelKeyword(text) == LevelsIn(text) # {}

\* where a text first occurs in another, from 0
FirstOccurrence(s, sub) ==
    CHOOSE i \in 0..(Len(s) - Len(sub)) :
        /\ SubSeq(s, i + 1, i + Len(sub)) = sub
        /\ \A j \in 0..(i - 1) : SubSeq(s, j + 1, j + Len(sub)) # sub

\* mutant of FallbackLevel: the severity word that comes first in the line
FallbackLevel_ByPosition(text) ==
    LET up == Upper(text)
        hits == LevelsIn(text)
    IN severity_levels[CHOOSE i \in hits : \A j \in hits :
           FirstOccurrence(up, severity_levels[i])
             <= FirstOccurrence(up, severity_levels[j])]

\* for level in self.severity_levels: if level in line.upper(): the first hit
FallbackLevel(text) ==
    LET hits == LevelsIn(text)
    IN severity_levels[CHOOSE i \in hits : \A j \in hits : i <= j]

\* mutant of parse_line: a line nothing recognises becomes an INFO record
parse_line_Default(line, log_type, t) ==
    IF log_type \in patterns /\ match(log_type, line)
    THEN groupdict(log_type, line)
    ELSE LET text == RawText(line)
         IN [timestamp |-> strftime(t),
             level |-> IF HasLevelKeyword(text) THEN FallbackLevel(text) ELSE INFO,
             service |-> unknown,
             message |-> Strip(text)]

parse_line(line, log_type, t) ==
    IF log_type \in patterns /\ match(log_type, line)
    THEN groupdict(log_type, line)
    ELSE LET text == RawText(line)
         IN IF HasLevelKeyword(text)
            THEN [timestamp |-> strftime(t),
                  level |-> FallbackLevel(text),
                  service |-> unknown,
                  message |-> Strip(text)]
            ELSE NoRecord

\* `if parsed:` -- None and the empty dict are falsy
IsRecord(parsed) == DOMAIN parsed # {}

\* ------------------------------------------------------------------ state
VARIABLES
    file,               \* the lines appended to the log file, in file order
    offset,             \* the ingestion thread's read position, in lines
    log_type,           \* RealTimeLogAnalyzer.log_type
    now,                \* the wall clock, time.time()
    running,            \* RealTimeLogAnalyzer.running
    paused,             \* RealTimeLogAnalyzer.paused
    current_view,       \* RealTimeLogAnalyzer.current_view
    filter,             \* RealTimeLogAnalyzer.filter, a LogFilter
    log_count,          \* PerformanceStats.log_count
    error_count,        \* PerformanceStats.error_count
    warning_count,      \* PerformanceStats.warning_count
    service_stats,      \* PerformanceStats.service_stats
    level_stats,        \* PerformanceStats.level_stats
    recent_logs,        \* PerformanceStats.recent_logs
    throughput,         \* PerformanceStats.throughput
    recent_logs_state,  \* mutation counter of the recent_logs deque
    throughput_state,   \* mutation counter of the throughput deque
    tpc,                \* position of the ingestion thread in tail_log
    log_entry,          \* the record update() is working on
    vpc,                \* position of the viewer (main) thread in run_ui
    it,                 \* the viewer's deque iterator: [state, index]
    display_logs,       \* draw_logs_view's list of matching records
    snap,               \* what the viewer has read of the statistics so far
    consumed,           \* history: the lines readline() has returned
    seek_pos,           \* history: the offset file.seek(0, 2) set
    updates,            \* history: the records and times update() was called with
    held_back,          \* history: a line was written while the loop was paused
    stop_lines,         \* history: the lines read when running was cleared, or -1
    pause_lines,        \* history: the lines read when paused was set, or -1
    last_op,            \* history: the last LogFilter call and its argument
    last_result         \* history: the result of the last matches_filter call

statsVars == <<log_count, error_count, warning_count, service_stats,
               level_stats, recent_logs, throughput,
               recent_logs_state, throughput_state>>

aggregateVars == <<log_count, error_count, warning_count, service_stats,
                   level_stats, recent_logs, throughput>>

tailVars == <<offset, tpc, log_entry, consumed, seek_pos>>

viewerVars == <<vpc, it, display_logs, snap>>

flagVars == <<running, paused, current_view>>

filterHist == <<last_op, last_result>>

envHist == <<updates, held_back, stop_lines, pause_lines>>

vars == <<file, log_type, now, flagVars, filter, statsVars, tailVars,
          viewerVars, updates, held_back, stop_lines, pause_lines,
          filterHist>>

\* ------------------------------------------------------ PerformanceStats
\* mutant of DequeAppend: a full deque refuses the new entry
DequeAppend_KeepOldest(d, x, maxlen) ==
    IF Len(d) >= maxlen THEN d ELSE Append(d, x)

\* deque.append on a deque(maxlen=maxlen): a full deque drops its left end
DequeAppend(d, x, maxlen) ==
    IF maxlen = 0 THEN d
    ELSE IF Len(d) >= maxlen THEN Append(Tail(d), x)
    ELSE Append(d, x)

ErrorLevels == {ERROR, CRITICAL, ALERT, EMERGENCY}

\* level = log_entry.get('level', 'INFO').upper()
EntryLevel(e) == Upper(Get(e, "level", INFO))

\* service = log_entry.get('service', 'unknown')
EntryService(e) == Get(e, "service", unknown)

\* mutant of UpdLogCount: the count is taken from the recent_logs buffer
UpdLogCount_FromBuffer == log_count' = Len(recent_logs)

\* the statements of update(), one at a time
UpdLogCount == log_count' = log_count + 1

UpdRecentLogs(e) ==
    /\ recent_logs' = DequeAppend(recent_logs, e, RecentMaxLen)
    /\ recent_logs_state' = recent_logs_state + 1

UpdLevelStats(e) == level_stats' = Incr(level_stats, EntryLevel(e))

UpdServiceStats(e) == service_stats' = Incr(service_stats, EntryService(e))

\* mutant of UpdBuckets: the level is compared as it came, not uppercased
UpdBuckets_RawLevel(e) ==
    IF Get(e, "level", INFO) \in ErrorLevels
    THEN error_count' = error_count + 1 /\ warning_count' = warning_count
    ELSE IF Get(e, "level", INFO) = WARNING
         THEN warning_count' = warning_count + 1 /\ error_count' = error_count
         ELSE error_count' = error_count /\ warning_count' = warning_count

UpdBuckets(e) ==
    IF EntryLevel(e) \in ErrorLevels
    THEN error_count' = error_count + 1 /\ warning_count' = warning_count
    ELSE IF EntryLevel(e) = WARNING
         THEN warning_count' = warning_count + 1 /\ error_count' = error_count
         ELSE error_count' = error_count /\ warning_count' = warning_count

UpdThroughput ==
    /\ throughput' = DequeAppend(throughput, <<now, 1>>, WindowSize)
    /\ throughput_state' = throughput_state + 1

\* PerformanceStats.update(log_entry), run without interruption
update(e) ==
    /\ UpdLogCount
    /\ UpdRecentLogs(e)
    /\ UpdLevelStats(e)
    /\ UpdServiceStats(e)
    /\ UpdBuckets(e)
    /\ UpdThroughput

\* the horizon of get_throughput, in seconds of the clock
ThroughputHorizon == 10

\* mutant of get_error_rate: the division without the test for no logs
get_error_rate_Unguarded(lc, ec) == <<ec * 100, lc>>

\* PerformanceStats.get_error_rate() as the exact fraction <<numerator, denominator>>
get_error_rate(lc, ec) == IF lc = 0 THEN <<0, 1>> ELSE <<ec * 100, lc>>

\* -------------------------------------------------------------- LogFilter
\* LogFilter.__init__
LogFilter ==
    [severity_threshold |-> DEBUG, service_filter |-> None,
     keyword_filter |-> None, exclude_keywords |-> <<>>]

set_severity(f, level) == [f EXCEPT !.severity_threshold = Upper(level)]

set_service(f, service) ==
    [f EXCEPT !.service_filter = IF Truthy(service) THEN Lower(service) ELSE None]

set_keyword(f, keyword) ==
    [f EXCEPT !.keyword_filter = IF Truthy(keyword) THEN Lower(keyword) ELSE None]

add_exclude_keyword(f, keyword) ==
    IF Truthy(keyword) /\ ~InList(f.exclude_keywords, keyword)
    THEN [f EXCEPT !.exclude_keywords = Append(@, Lower(keyword))]
    ELSE f

\* mutant of SeverityGate: a level outside the list is rejected
SeverityGate_RejectUnknown(f, e) ==
    LET level == Upper(Get(e, "level", INFO))
    IN IF InList(filter_severity_levels, level)
          /\ InList(filter_severity_levels, f.severity_threshold)
       THEN ~(Index(filter_severity_levels, level)
                > Index(filter_severity_levels, f.severity_threshold))
       ELSE InList(filter_severity_levels, level)

\* the severity stage of matches_filter: FALSE when it returns False there
SeverityGate(f, e) ==
    LET level == Upper(Get(e, "level", INFO))
    IN IF InList(filter_severity_levels, level)
          /\ InList(filter_severity_levels, f.severity_threshold)
       THEN ~(Index(filter_severity_levels, level)
                > Index(filter_severity_levels, f.severity_threshold))
       ELSE TRUE

matches_filter(f, e) ==
    LET service == Lower(Get(e, "service", <<>>))
        message == Lower(Get(e, "message", <<>>))
    IN /\ SeverityGate(f, e)
       /\ ~(Truthy(f.service_filter) /\ ~Contains(service, f.service_filter))
       /\ ~(Truthy(f.keyword_filter) /\ ~Contains(message, f.keyword_filter))
       /\ \A i \in 1..Len(f.exclude_keywords) :
              ~Contains(message, f.exclude_keywords[i])

\* ----------------------------------- the two prompts of handle_filter_input
\* mutant of prompt_severity: whatever was typed is handed to set_severity
prompt_severity_Unchecked(f, severity_text) ==
    set_severity(f, Upper(Strip(severity_text)))

\* severity = getstr(...).strip().upper()
\* if severity in self.parser.severity_levels: self.filter.set_severity(severity)
prompt_severity(f, severity_text) ==
    LET severity == Upper(Strip(severity_text))
    IN IF severity \in SeverityNames THEN set_severity(f, severity) ELSE f

\* service = getstr(...).strip(); if service: self.filter.set_service(service)
prompt_service(f, service_text) ==
    LET service == Strip(service_text)
    IN IF service # <<>> THEN set_service(f, service) ELSE f

\* ------------------------------------------------------------ sample text
t_sshd == <<"s","s","h","d">>
t_SSHD == <<"S","S","H","D">>
t_db == <<"d","b">>
t_timeout == <<"t","i","m","e","o","u","t">>
t_Timeout == <<"T","i","m","e","o","u","t">>
t_ok == <<"o","k">>
t_error == <<"e","r","r","o","r">>
t_warn == <<"w","a","r","n">>
t_warning == <<"w","a","r","n","i","n","g">>
t_stamp == <<"J","a","n","1">>
t_verbose == <<"v","e","r","b","o","s","e">>

\* ------------------------------------------------------------ initial state
StatsInit ==
    /\ log_count = 0
    /\ error_count = 0
    /\ warning_count = 0
    /\ service_stats = <<>>
    /\ level_stats = <<>>
    /\ recent_logs = <<>>
    /\ throughput = <<>>
    /\ recent_logs_state = 0
    /\ throughput_state = 0

NoIter == [state |-> 0, index |-> 0]

NoSnap == <<>>

RestInit ==
    /\ file = <<>>
    /\ offset = 0
    /\ now = 0
    /\ running = FALSE
    /\ paused = FALSE
    /\ current_view = "logs"
    /\ tpc = "idle"
    /\ log_entry = NoRecord
    /\ vpc = "start"
    /\ it = NoIter
    /\ display_logs = <<>>
    /\ snap = NoSnap
    /\ consumed = <<>>
    /\ seek_pos = 0
    /\ updates = <<>>
    /\ held_back = FALSE
    /\ stop_lines = -1
    /\ pause_lines = -1
    /\ last_op = <<"init">>
    /\ last_result = TRUE

\* the wall clock advances
Tick ==
    /\ now < MaxTime
    /\ now' = now + 1
    /\ UNCHANGED <<file, log_type, flagVars, filter, statsVars, tailVars,
                   viewerVars, envHist, filterHist>>

\* ------------------------------------------------ the LogFilter, on its own
SeverityInputs == SeverityNames \cup {t_warning, t_warn}

ServiceInputs == {t_sshd, t_SSHD, <<>>}

KeywordInputs == {t_timeout, t_Timeout, t_ok, <<>>}

\* what the user types at the severity prompt: a name of the enumeration in
\* lower case and padded, two texts outside it, and nothing
SeverityTyped == {<<" ">> \o t_error \o <<" ">>, t_warn, t_verbose, <<>>}

\* what the user types at the service prompt
ServiceTyped == {t_SSHD, <<>>}

FilterRecords ==
    {[timestamp |-> t_stamp, level |-> l, service |-> t_sshd, message |-> m] :
        l \in SeverityNames \cup {t_error, t_warn}, m \in {t_timeout, t_ok}}
    \cup {[timestamp |-> t_stamp, level |-> t_error, message |-> t_Timeout]}

FilterFrame ==
    UNCHANGED <<file, log_type, now, flagVars, statsVars, tailVars,
                viewerVars, envHist>>

F_SetSeverity ==
    \E level \in SeverityInputs :
        /\ filter' = set_severity(filter, level)
        /\ last_op' = <<"set_severity", level>>
        /\ UNCHANGED last_result
        /\ FilterFrame

F_SetService ==
    \E service \in ServiceInputs :
        /\ filter' = set_service(filter, service)
        /\ last_op' = <<"set_service", service>>
        /\ UNCHANGED last_result
        /\ FilterFrame

F_SetKeyword ==
    \E keyword \in KeywordInputs :
        /\ filter' = set_keyword(filter, keyword)
        /\ last_op' = <<"set_keyword", keyword>>
        /\ UNCHANGED last_result
        /\ FilterFrame

F_AddExcludeKeyword ==
    \E keyword \in KeywordInputs :
        /\ Len(add_exclude_keyword(filter, keyword).exclude_keywords) <= MaxExclude
        /\ filter' = add_exclude_keyword(filter, keyword)
        /\ last_op' = <<"add_exclude_keyword", keyword>>
        /\ UNCHANGED last_result
        /\ FilterFrame

\* self.filter = LogFilter()
F_Reset ==
    /\ filter' = LogFilter
    /\ last_op' = <<"reset">>
    /\ UNCHANGED last_result
    /\ FilterFrame

\* the severity prompt of handle_filter_input, with what the user typed
F_PromptSeverity ==
    \E typed \in SeverityTyped :
        /\ filter' = prompt_severity(filter, typed)
        /\ last_op' = <<"prompt_severity", typed>>
        /\ UNCHANGED last_result
        /\ FilterFrame

\* the service prompt of handle_filter_input, with what the user typed
F_PromptService ==
    \E typed \in ServiceTyped :
        /\ filter' = prompt_service(filter, typed)
        /\ last_op' = <<"prompt_service", typed>>
        /\ UNCHANGED last_result
        /\ FilterFrame

F_MatchesFilter ==
    \E e \in FilterRecords :
        /\ last_result' = matches_filter(filter, e)
        /\ last_op' = <<"matches_filter", e>>
        /\ UNCHANGED filter
        /\ FilterFrame

FilterInit ==
    /\ StatsInit
    /\ RestInit
    /\ log_type = "syslog"
    /\ filter = LogFilter

FilterNext ==
    \/ F_SetSeverity
    \/ F_SetService
    \/ F_SetKeyword
    \/ F_AddExcludeKeyword
    \/ F_Reset
    \/ F_PromptSeverity
    \/ F_PromptService
    \/ F_MatchesFilter

FilterSpec == FilterInit /\ [][FilterNext]_vars

\* ---------------------------------------------- the running analyzer: input
t_alert == <<"a","l","e","r","t">>
t_hello == <<"h","e","l","l","o","\n">>
t_debug_alert == <<" ","d","e","b","u","g"," ","a","l","e","r","t"," ","\n">>
t_blank == <<" ","\n">>

FormattedLine(fmt, level, service, message) ==
    [fmt |-> fmt, timestamp |-> t_stamp, level |-> level,
     service |-> service, message |-> message]

FreeLine(text) ==
    [fmt |-> "none", timestamp |-> <<>>, level |-> <<>>,
     service |-> <<>>, message |-> text]

\* lines in each of the four grammars and in none, with and without a severity
\* word, and a blank line
AllLines ==
    {FormattedLine("syslog", ERROR, t_sshd, t_alert),
     FormattedLine("apache", t_warning, <<>>, t_timeout),
     FormattedLine("nginx", t_warn, <<>>, t_ok),
     FormattedLine("custom", INFO, t_db, t_ok),
     FreeLine(t_debug_alert),
     FreeLine(t_hello),
     FreeLine(t_blank)}

\* the lines written while the viewer runs: one the grammar matches, one only
\* the fallback recognises, one nothing recognises
SampleLines ==
    {FormattedLine("syslog", ERROR, t_sshd, t_alert),
     FormattedLine("apache", t_warning, <<>>, t_timeout),
     FreeLine(t_hello)}

\* --type of main() while the viewer runs: its default
LogTypes == {"syslog"}

\* --severity of main(): the default of the choices DEBUG, INFO, WARNING, ERROR,
\* CRITICAL (the viewer's filter prompt reaches another threshold)
SeverityChoices == {DEBUG}

\* what the user types at the two prompts of handle_filter_input
FilterTyped == {<<t_warn, <<>>>>, <<t_warning, t_SSHD>>}

ProcessAlive == vpc \notin {"exited", "crashed"}

\* another process appends a whole line to the log file, once the analyzer
\* runs; held_back notes a line written while the flag is set and the loop is
\* not already past its test of the flag
AppendLine ==
    \E line \in SampleLines :
        /\ ProcessAlive /\ tpc # "idle"
        /\ Len(file) < MaxLines
        /\ file' = Append(file, line)
        /\ held_back' = (held_back \/ (paused /\ tpc # "readline"))
        /\ UNCHANGED <<log_type, now, flagVars, filter, statsVars, tailVars,
                       viewerVars, updates, stop_lines, pause_lines,
                       filterHist>>

\* ------------------------------------------------- tail_log, the ingestion
\* time.sleep(0.1) at the end of an iteration changes nothing: each iteration
\* ends back at "while".
TailFrame ==
    UNCHANGED <<file, log_type, now, flagVars, filter, viewerVars, updates,
                filterHist>>

\* open(self.log_file) and file.seek(0, 2), or FileNotFoundError and sys.exit(1),
\* which in a thread ends the thread only
T_Open ==
    /\ ProcessAlive /\ tpc = "open"
    /\ \E exists \in BOOLEAN :
          IF exists
          THEN /\ offset' = Len(file)
               /\ seek_pos' = Len(file)
               /\ tpc' = "while"
          ELSE /\ tpc' = "dead"
               /\ UNCHANGED <<offset, seek_pos>>
    /\ UNCHANGED <<log_entry, consumed, statsVars>>
    /\ UNCHANGED <<held_back, stop_lines, pause_lines>>
    /\ TailFrame

\* while self.running:
T_While ==
    /\ ProcessAlive /\ tpc = "while"
    /\ tpc' = IF running THEN "if_paused" ELSE "done"
    /\ UNCHANGED <<offset, seek_pos, log_entry, consumed, statsVars>>
    /\ UNCHANGED <<held_back, stop_lines, pause_lines>>
    /\ TailFrame

\* mutant of T_IfPaused: a paused loop reads the waiting line and discards it
T_IfPaused_Discard ==
    /\ ProcessAlive /\ tpc = "if_paused"
    /\ tpc' = IF paused THEN "while" ELSE "readline"
    /\ offset' = IF paused /\ offset < Len(file) THEN offset + 1 ELSE offset
    /\ UNCHANGED <<seek_pos, log_entry, consumed, statsVars>>
    /\ UNCHANGED <<held_back, stop_lines, pause_lines>>
    /\ TailFrame

\* mutant of T_IfPaused: the loop reads on whatever the flag says
T_IfPaused_Ignore ==
    /\ ProcessAlive /\ tpc = "if_paused"
    /\ tpc' = "readline"
    /\ UNCHANGED <<held_back, stop_lines, pause_lines>>
    /\ UNCHANGED <<offset, seek_pos, log_entry, consumed, statsVars>>
    /\ TailFrame

\* mutant of T_IfPaused: a paused loop waits for the resume where it is
T_IfPaused_Wait ==
    /\ ProcessAlive /\ tpc = "if_paused"
    /\ tpc' = IF paused THEN "if_paused" ELSE "readline"
    /\ UNCHANGED <<held_back, stop_lines, pause_lines>>
    /\ UNCHANGED <<offset, seek_pos, log_entry, consumed, statsVars>>
    /\ TailFrame

\* if not self.paused:
T_IfPaused ==
    /\ ProcessAlive /\ tpc = "if_paused"
    /\ tpc' = IF paused THEN "while" ELSE "readline"
    /\ UNCHANGED <<held_back, stop_lines, pause_lines>>
    /\ UNCHANGED <<offset, seek_pos, log_entry, consumed, statsVars>>
    /\ TailFrame

\* the read position after readline() returned a line
NextOffset(pos) == pos + 1

\* mutant of T_ReadLine: only a record the filter accepts is handed to update
T_ReadLine_Filtered ==
    /\ ProcessAlive /\ tpc = "readline"
    /\ IF offset < Len(file)
       THEN LET line == file[offset + 1]
                parsed == parse_line(line, log_type, now)
            IN /\ offset' = NextOffset(offset)
               /\ consumed' = Append(consumed, line)
               /\ IF IsRecord(parsed) /\ matches_filter(filter, parsed)
                  THEN log_entry' = parsed /\ tpc' = "upd_log_count"
                  ELSE log_entry' = log_entry /\ tpc' = "while"
       ELSE /\ tpc' = "while"
            /\ UNCHANGED <<offset, consumed, log_entry>>
    /\ UNCHANGED <<seek_pos, statsVars>>
    /\ UNCHANGED <<held_back, stop_lines, pause_lines>>
    /\ TailFrame

\* line = file.readline(); if line: parsed = parse_line(...); if parsed: update
T_ReadLine ==
    /\ ProcessAlive /\ tpc = "readline"
    /\ IF offset < Len(file)
       THEN LET line == file[offset + 1]
                parsed == parse_line(line, log_type, now)
            IN /\ offset' = NextOffset(offset)
               /\ consumed' = Append(consumed, line)
               /\ IF IsRecord(parsed)
                  THEN log_entry' = parsed /\ tpc' = "upd_log_count"
                  ELSE log_entry' = log_entry /\ tpc' = "while"
       ELSE /\ tpc' = "while"
            /\ UNCHANGED <<offset, consumed, log_entry>>
    /\ UNCHANGED <<seek_pos, statsVars>>
    /\ UNCHANGED <<held_back, stop_lines, pause_lines>>
    /\ TailFrame

\* readline() raises: except Exception: print, sys.exit(1), ending the thread
T_ReadError ==
    /\ ProcessAlive /\ tpc = "readline"
    /\ tpc' = "dead"
    /\ UNCHANGED <<offset, seek_pos, log_entry, consumed, statsVars>>
    /\ UNCHANGED <<held_back, stop_lines, pause_lines>>
    /\ TailFrame

T_UpdLogCount ==
    /\ ProcessAlive /\ tpc = "upd_log_count"
    /\ UpdLogCount
    /\ tpc' = "upd_recent_logs"
    /\ UNCHANGED <<error_count, warning_count, service_stats, level_stats,
                   recent_logs, throughput, recent_logs_state, throughput_state>>
    /\ UNCHANGED <<offset, seek_pos, log_entry, consumed>>
    /\ UNCHANGED <<held_back, stop_lines, pause_lines>>
    /\ TailFrame

T_UpdRecentLogs ==
    /\ ProcessAlive /\ tpc = "upd_recent_logs"
    /\ UpdRecentLogs(log_entry)
    /\ tpc' = "upd_level_stats"
    /\ UNCHANGED <<log_count, error_count, warning_count, service_stats,
                   level_stats, throughput, throughput_state>>
    /\ UNCHANGED <<offset, seek_pos, log_entry, consumed>>
    /\ UNCHANGED <<held_back, stop_lines, pause_lines>>
    /\ TailFrame

T_UpdLevelStats ==
    /\ ProcessAlive /\ tpc = "upd_level_stats"
    /\ UpdLevelStats(log_entry)
    /\ tpc' = "upd_service_stats"
    /\ UNCHANGED <<log_count, error_count, warning_count, service_stats,
                   recent_logs, throughput, recent_logs_state, throughput_state>>
    /\ UNCHANGED <<offset, seek_pos, log_entry, consumed>>
    /\ UNCHANGED <<held_back, stop_lines, pause_lines>>
    /\ TailFrame

T_UpdServiceStats ==
    /\ ProcessAlive /\ tpc = "upd_service_stats"
    /\ UpdServiceStats(log_entry)
    /\ tpc' = "upd_buckets"
    /\ UNCHANGED <<log_count, error_count, warning_count, level_stats,
                   recent_logs, throughput, recent_logs_state, throughput_state>>
    /\ UNCHANGED <<offset, seek_pos, log_entry, consumed>>
    /\ UNCHANGED <<held_back, stop_lines, pause_lines>>
    /\ TailFrame

T_UpdBuckets ==
    /\ ProcessAlive /\ tpc = "upd_buckets"
    /\ UpdBuckets(log_entry)
    /\ tpc' = "upd_throughput"
    /\ UNCHANGED <<log_count, service_stats, level_stats,
                   recent_logs, throughput, recent_logs_state, throughput_state>>
    /\ UNCHANGED <<offset, seek_pos, log_entry, consumed>>
    /\ UNCHANGED <<held_back, stop_lines, pause_lines>>
    /\ TailFrame

T_UpdThroughput ==
    /\ ProcessAlive /\ tpc = "upd_throughput"
    /\ UpdThroughput
    /\ tpc' = "while"
    /\ UNCHANGED <<log_count, error_count, warning_count, service_stats,
                   level_stats, recent_logs, recent_logs_state>>
    /\ UNCHANGED <<offset, seek_pos, log_entry, consumed>>
    /\ UNCHANGED <<held_back, stop_lines, pause_lines>>
    /\ TailFrame

tail_log ==
    \/ T_Open
    \/ T_While
    \/ T_IfPaused
    \/ T_ReadError
    \/ T_ReadLine
    \/ T_UpdLogCount
    \/ T_UpdRecentLogs
    \/ T_UpdLevelStats
    \/ T_UpdServiceStats
    \/ T_UpdBuckets
    \/ T_UpdThroughput

\* ------------------------------------------------------ run_ui, the viewer
ViewerFrame ==
    UNCHANGED <<file, log_type, now, statsVars, offset, log_entry, consumed,
                seek_pos, envHist, filterHist>>

\* self.start_monitoring(): running = True and the thread starts
V_StartMonitoring ==
    /\ vpc = "start"
    /\ running' = TRUE
    /\ tpc' = "open"
    /\ vpc' = "while"
    /\ UNCHANGED <<paused, current_view, filter, it, display_logs, snap>>
    /\ ViewerFrame

\* while self.running:
V_While ==
    /\ vpc = "while"
    /\ vpc' = IF running THEN "draw" ELSE "stop"
    /\ UNCHANGED <<flagVars, filter, tpc, it, display_logs, snap>>
    /\ ViewerFrame

\* the dispatch on current_view; draw_logs_view creates the deque iterator
V_Draw ==
    /\ vpc = "draw"
    /\ CASE current_view = "logs" ->
              /\ it' = [state |-> recent_logs_state, index |-> 0]
              /\ vpc' = "logs_iter"
         [] current_view = "stats" ->
              /\ it' = it
              /\ vpc' = "stats_log_count"
         [] OTHER ->
              /\ it' = it
              /\ vpc' = "services_items"
    /\ UNCHANGED <<flagVars, filter, tpc, display_logs, snap>>
    /\ ViewerFrame

\* one step of [log for log in recent_logs if matches_filter(log)]: a deque
\* mutated since the iterator was created raises RuntimeError, which nothing
\* in run_ui or main catches
V_LogsNext ==
    /\ vpc = "logs_iter"
    /\ IF it.state # recent_logs_state
       THEN /\ vpc' = "crashed"
            /\ UNCHANGED <<it, display_logs>>
       ELSE IF it.index < Len(recent_logs)
            THEN LET log == recent_logs[it.index + 1]
                 IN /\ display_logs' = IF matches_filter(filter, log)
                                       THEN Append(display_logs, log)
                                       ELSE display_logs
                    /\ it' = [it EXCEPT !.index = @ + 1]
                    /\ vpc' = vpc
            ELSE /\ vpc' = "getch"
                 /\ it' = NoIter
                 /\ display_logs' = <<>>
    /\ UNCHANGED <<flagVars, filter, tpc, snap>>
    /\ ViewerFrame

\* f"Total Logs: {self.stats.log_count}"
V_StatsLogCount ==
    /\ vpc = "stats_log_count"
    /\ snap' = [log_count |-> log_count]
    /\ vpc' = "stats_error_count"
    /\ UNCHANGED <<flagVars, filter, tpc, it, display_logs>>
    /\ ViewerFrame

\* f"Errors: {self.stats.error_count}"
V_StatsErrorCount ==
    /\ vpc = "stats_error_count"
    /\ snap' = [log_count |-> snap.log_count, error_count |-> error_count]
    /\ vpc' = "stats_warning_count"
    /\ UNCHANGED <<flagVars, filter, tpc, it, display_logs>>
    /\ ViewerFrame

\* f"Warnings: {self.stats.warning_count}"
V_StatsWarningCount ==
    /\ vpc = "stats_warning_count"
    /\ snap' = [log_count |-> snap.log_count, error_count |-> snap.error_count,
                warning_count |-> warning_count, recent |-> 0]
    /\ vpc' = "throughput_check"
    /\ UNCHANGED <<flagVars, filter, tpc, it, display_logs>>
    /\ ViewerFrame

\* get_throughput: if not self.throughput: return 0; else start the iteration
V_ThroughputCheck ==
    /\ vpc = "throughput_check"
    /\ IF throughput = <<>>
       THEN /\ vpc' = "stats_error_rate"
            /\ it' = it
       ELSE /\ vpc' = "throughput_iter"
            /\ it' = [state |-> throughput_state, index |-> 0, time |-> now]
    /\ UNCHANGED <<flagVars, filter, tpc, display_logs, snap>>
    /\ ViewerFrame

\* one step of [count for ts, count in self.throughput if current_time - ts <= 10]
V_ThroughputNext ==
    /\ vpc = "throughput_iter"
    /\ IF it.state # throughput_state
       THEN /\ vpc' = "crashed"
            /\ UNCHANGED <<it, snap>>
       ELSE IF it.index < Len(throughput)
            THEN LET ev == throughput[it.index + 1]
                 IN /\ snap' = IF it.time - ev[1] <= ThroughputHorizon
                               THEN [snap EXCEPT !.recent = @ + ev[2]]
                               ELSE snap
                    /\ it' = [it EXCEPT !.index = @ + 1]
                    /\ vpc' = vpc
            ELSE /\ vpc' = "stats_error_rate"
                 /\ it' = NoIter
                 /\ snap' = snap
    /\ UNCHANGED <<flagVars, filter, tpc, display_logs>>
    /\ ViewerFrame

\* f"Error Rate: {self.stats.get_error_rate():.1f}%"
V_StatsErrorRate ==
    /\ vpc = "stats_error_rate"
    /\ snap' = [log_count |-> snap.log_count, error_count |-> snap.error_count,
                warning_count |-> snap.warning_count, recent |-> snap.recent,
                error_rate |-> get_error_rate(log_count, error_count)]
    /\ vpc' = "stats_levels"
    /\ UNCHANGED <<flagVars, filter, tpc, it, display_logs>>
    /\ ViewerFrame

\* sorted(self.stats.level_stats.items(), ...): the items are copied at once
V_StatsLevels ==
    /\ vpc = "stats_levels"
    /\ snap' = [log_count |-> snap.log_count, error_count |-> snap.error_count,
                warning_count |-> snap.warning_count, recent |-> snap.recent,
                error_rate |-> snap.error_rate, levels |-> level_stats]
    /\ vpc' = "stats_percentages"
    /\ UNCHANGED <<flagVars, filter, tpc, it, display_logs>>
    /\ ViewerFrame

\* percentage = (count / self.stats.log_count) * 100 for each count > 0, then
\* the lines are drawn; a division by zero is an uncaught ZeroDivisionError
V_StatsPercentages ==
    /\ vpc = "stats_percentages"
    /\ IF log_count = 0 /\ \E k \in DOMAIN snap.levels : snap.levels[k] > 0
       THEN vpc' = "crashed" /\ snap' = snap
       ELSE vpc' = "getch" /\ snap' = NoSnap
    /\ UNCHANGED <<flagVars, filter, tpc, it, display_logs>>
    /\ ViewerFrame

\* services = sorted(self.stats.service_stats.items(), ...)
V_ServicesItems ==
    /\ vpc = "services_items"
    /\ snap' = [services |-> service_stats]
    /\ vpc' = "services_percentages"
    /\ UNCHANGED <<flagVars, filter, tpc, it, display_logs>>
    /\ ViewerFrame

\* (count / log_count) * 100 if log_count > 0 else 0, for each service
V_ServicesPercentages ==
    /\ vpc = "services_percentages"
    /\ vpc' = "getch"
    /\ snap' = NoSnap
    /\ UNCHANGED <<flagVars, filter, tpc, it, display_logs>>
    /\ ViewerFrame

\* key q: break
V_KeyQuit ==
    /\ vpc = "getch"
    /\ vpc' = "stop"
    /\ UNCHANGED <<flagVars, filter, tpc, it, display_logs, snap>>
    /\ ViewerFrame

\* key p: self.paused = not self.paused
V_KeyPause ==
    /\ vpc = "getch"
    /\ paused' = ~paused
    /\ vpc' = "while"
    /\ pause_lines' = IF paused THEN -1 ELSE Len(consumed)
    /\ UNCHANGED <<running, current_view, filter, tpc, it, display_logs, snap>>
    /\ UNCHANGED <<file, log_type, now, statsVars, offset, log_entry, consumed,
                   seek_pos, updates, held_back, stop_lines, filterHist>>

\* keys l, s, v: self.current_view = ...
V_KeyView ==
    /\ vpc = "getch"
    /\ \E view \in {"logs", "stats", "services"} : current_view' = view
    /\ vpc' = "while"
    /\ UNCHANGED <<running, paused, filter, tpc, it, display_logs, snap>>
    /\ ViewerFrame

\* handle_filter_input with the two texts the user typed
handle_filter_input(f, severity_text, service_text) ==
    prompt_service(prompt_severity(f, severity_text), service_text)

\* key f
V_KeyFilter ==
    /\ vpc = "getch"
    /\ \E typed \in FilterTyped :
          filter' = handle_filter_input(filter, typed[1], typed[2])
    /\ vpc' = "while"
    /\ UNCHANGED <<flagVars, tpc, it, display_logs, snap>>
    /\ ViewerFrame

\* mutant of V_KeyClear: the reset also starts the statistics afresh
V_KeyClear_ResetStats ==
    /\ vpc = "getch"
    /\ filter' = LogFilter
    /\ vpc' = "while"
    /\ log_count' = 0 /\ error_count' = 0 /\ warning_count' = 0
    /\ level_stats' = <<>> /\ service_stats' = <<>>
    /\ UNCHANGED <<recent_logs, throughput, recent_logs_state, throughput_state>>
    /\ UNCHANGED <<flagVars, tpc, it, display_logs, snap>>
    /\ UNCHANGED <<file, log_type, now, offset, log_entry, consumed,
                   seek_pos, envHist, filterHist>>

\* key c: self.filter = LogFilter()
V_KeyClear ==
    /\ vpc = "getch"
    /\ filter' = LogFilter
    /\ vpc' = "while"
    /\ UNCHANGED <<flagVars, tpc, it, display_logs, snap>>
    /\ ViewerFrame

\* any other key
V_KeyOther ==
    /\ vpc = "getch"
    /\ vpc' = "while"
    /\ UNCHANGED <<flagVars, filter, tpc, it, display_logs, snap>>
    /\ ViewerFrame

\* stop_monitoring: self.running = False
V_StopMonitoring ==
    /\ vpc = "stop"
    /\ running' = FALSE
    /\ vpc' = "join"
    /\ stop_lines' = Len(consumed)
    /\ UNCHANGED <<paused, current_view, filter, tpc, it, display_logs, snap>>
    /\ UNCHANGED <<file, log_type, now, statsVars, offset, log_entry, consumed,
                   seek_pos, updates, held_back, pause_lines, filterHist>>

\* monitor_thread.join(timeout=1) returns, run_ui and main return
V_Join ==
    /\ vpc = "join"
    /\ vpc' = "exited"
    /\ UNCHANGED <<flagVars, filter, tpc, it, display_logs, snap>>
    /\ ViewerFrame

run_ui ==
    \/ V_StartMonitoring
    \/ V_While
    \/ V_Draw
    \/ V_LogsNext
    \/ V_StatsLogCount
    \/ V_StatsErrorCount
    \/ V_StatsWarningCount
    \/ V_ThroughputCheck
    \/ V_ThroughputNext
    \/ V_StatsErrorRate
    \/ V_StatsLevels
    \/ V_StatsPercentages
    \/ V_ServicesItems
    \/ V_ServicesPercentages
    \/ V_KeyQuit
    \/ V_KeyPause
    \/ V_KeyView
    \/ V_KeyFilter
    \/ V_KeyClear
    \/ V_KeyOther
    \/ V_StopMonitoring
    \/ V_Join

\* ------------------------------------------------------------ the analyzer
\* RealTimeLogAnalyzer.__init__ and main(): the format and --severity are chosen
Init ==
    /\ StatsInit
    /\ RestInit
    /\ log_type \in LogTypes
    /\ \E severity \in SeverityChoices : filter = set_severity(LogFilter, severity)

Next ==
    \/ AppendLine
    \/ tail_log
    \/ run_ui

Spec == Init /\ [][Next]_vars

\* the steps of the viewer that wait for no key
ViewerInternal ==
    \/ V_StartMonitoring
    \/ V_While
    \/ V_Draw
    \/ V_LogsNext
    \/ V_StatsLogCount
    \/ V_StatsErrorCount
    \/ V_StatsWarningCount
    \/ V_ThroughputCheck
    \/ V_ThroughputNext
    \/ V_StatsErrorRate
    \/ V_StatsLevels
    \/ V_StatsPercentages
    \/ V_ServicesItems
    \/ V_ServicesPercentages
    \/ V_StopMonitoring
    \/ V_Join

\* both threads are scheduled; when the user presses a key is up to the user
FairSpec == Spec /\ WF_vars(tail_log) /\ WF_vars(ViewerInternal)

\* ------------------------------------------- the analyzer until it is stopped
\* The user only pauses, resumes and quits: the keys that touch neither flag
\* are not pressed and the view stays the logs view.
StopViewer ==
    \/ V_StartMonitoring
    \/ V_While
    \/ V_Draw
    \/ V_LogsNext
    \/ V_KeyPause
    \/ V_KeyQuit
    \/ V_StopMonitoring
    \/ V_Join

StopNext ==
    \/ AppendLine
    \/ tail_log
    \/ StopViewer

\* the steps of the viewer up to and including stop_monitoring's clearing of
\* the flag, the keys excepted
ViewerUntilJoin ==
    \/ V_StartMonitoring
    \/ V_While
    \/ V_Draw
    \/ V_LogsNext
    \/ V_StopMonitoring

\* the ingestion thread is scheduled while the main thread waits in
\* monitor_thread.join(timeout=1): how soon the join returns is left open
StopSpec ==
    Init /\ [][StopNext]_vars /\ WF_vars(tail_log) /\ WF_vars(ViewerUntilJoin)

\* ------------------------------------ the ingestion loop alone, in sequence
\* One iteration of the loop of tail_log on a line just written, with no
\* viewer step in between: readline, parse_line, update.
Q_Ingest ==
    \E line \in AllLines :
        LET parsed == parse_line(line, log_type, now)
        IN /\ Len(file) < MaxIngest
           /\ running /\ ~paused /\ tpc = "while"
           /\ file' = Append(file, line)
           /\ offset' = NextOffset(offset)
           /\ consumed' = Append(consumed, line)
           /\ IF IsRecord(parsed)
              THEN /\ update(parsed)
                   /\ log_entry' = parsed
                   /\ updates' = Append(updates, [entry |-> parsed, time |-> now])
              ELSE UNCHANGED <<statsVars, log_entry, updates>>
           /\ UNCHANGED <<log_type, now, flagVars, filter, tpc, seek_pos,
                          viewerVars, held_back, stop_lines, pause_lines,
                          filterHist>>

\* the analyzer after start_monitoring and the open of an empty file, the
\* viewer waiting for a key
SeqInit ==
    /\ StatsInit
    /\ file = <<>> /\ offset = 0 /\ seek_pos = 0 /\ consumed = <<>>
    /\ now = 0
    /\ running = TRUE /\ paused = FALSE /\ current_view = "logs"
    /\ tpc = "while" /\ log_entry = NoRecord
    /\ vpc = "getch" /\ it = NoIter /\ display_logs = <<>> /\ snap = NoSnap
    /\ updates = <<>> /\ held_back = FALSE
    /\ stop_lines = -1 /\ pause_lines = -1
    /\ last_op = <<"init">> /\ last_result = TRUE
    /\ log_type \in patterns
    /\ filter = LogFilter

SeqNext ==
    \/ Q_Ingest
    \/ Tick

SeqSpec == SeqInit /\ [][SeqNext]_vars

\* ================================================================= claims
\* the position of a level in the enumeration, 0 the most severe (the values
\* of LogParser.severity_levels)
SeverityRank(level) == Index(severity_levels, level)

AtLeastAsSevere(level, threshold) == SeverityRank(level) <= SeverityRank(threshold)

OnlySeverity(f) ==
    /\ ~Truthy(f.service_filter)
    /\ ~Truthy(f.keyword_filter)
    /\ f.exclude_keywords = <<>>

\* C1: with no service, keyword or exclusion constraint, matches_filter
\* accepts a record whose uppercased severity is in the enumeration if and
\* only if that severity is at least as severe as the threshold (threshold
\* WARNING: ERROR, CRITICAL, WARNING accepted; INFO, DEBUG, NOTICE rejected).
C1_SeverityGate ==
    (/\ last_op[1] = "matches_filter"
     /\ OnlySeverity(filter)
     /\ filter.severity_threshold \in SeverityNames
     /\ EntryLevel(last_op[2]) \in SeverityNames)
    => (last_result
          <=> AtLeastAsSevere(EntryLevel(last_op[2]), filter.severity_threshold))

\* C5: after the filter is reset to defaults, from any prior filter state,
\* matches_filter returns true for every record.
C5_ResetAcceptsAll ==
    last_op[1] = "reset" => \A e \in FilterRecords : matches_filter(filter, e)

NoDuplicates(seq) ==
    \A i, j \in 1..Len(seq) : i # j => seq[i] # seq[j]

\* C9: add_exclude_keyword is idempotent: after add_exclude_keyword(k) with a
\* non-empty k in any letter case, a second add_exclude_keyword(k) leaves the
\* filter as it is, and the exclusion collection never holds an entry twice.
C9_AddExcludeIdempotent ==
    /\ (last_op[1] = "add_exclude_keyword" /\ last_op[2] # <<>>)
          => add_exclude_keyword(filter, last_op[2]) = filter
    /\ NoDuplicates(filter.exclude_keywords)

\* the viewer is about to read the statistics for the stats or services view
ViewerReadsStats ==
    vpc \in {"stats_log_count", "stats_error_count", "stats_warning_count",
             "stats_error_rate", "stats_levels", "stats_percentages",
             "services_items", "services_percentages"}

Tally(level) == Get(level_stats, level, 0)

\* the sum of the counts of a tally
RECURSIVE SumValues(_)
SumValues(d) ==
    IF DOMAIN d = {} THEN 0
    ELSE LET k == CHOOSE x \in DOMAIN d : TRUE
         IN d[k] + SumValues([x \in DOMAIN d \ {k} |-> d[x]])

StatsConsistent ==
    /\ log_count = SumValues(level_stats)
    /\ log_count = SumValues(service_stats)
    /\ error_count = Tally(ERROR) + Tally(CRITICAL) + Tally(ALERT) + Tally(EMERGENCY)
    /\ warning_count = Tally(WARNING)

\* C2: whenever the viewer reads the aggregate state, log_count equals the sum
\* of the per-severity tallies and of the per-service tallies, and error_count
\* and warning_count reflect every record counted in log_count.
C2_NoTornRead == ViewerReadsStats => StatsConsistent

\* C3: no buffer is appended to between the start and the end of a viewer
\* iteration over it (recent_logs in draw_logs_view, the throughput window in
\* get_throughput).
C3_NoAppendDuringIteration ==
    /\ vpc = "logs_iter" => it.state = recent_logs_state
    /\ vpc = "throughput_iter" => it.state = throughput_state

\* C4: the lines the loop has read are exactly the lines written after its
\* seek up to its read offset, each once and in file order, and a pause or
\* resume toggle moves neither the read offset nor what has been read.
C4_ExactlyOnceInOrder ==
    /\ [](/\ seek_pos <= offset /\ offset <= Len(file)
          /\ consumed = SubSeq(file, seek_pos + 1, offset))
    /\ [][paused' # paused => (offset' = offset /\ consumed' = consumed)]_vars

\* C4 witness: a line was written while the loop was paused, the loop has been
\* resumed and has read every line written, two of them.
C4_Witness ==
    /\ held_back
    /\ ~paused
    /\ offset = Len(file)
    /\ Len(consumed) >= 2
    /\ consumed[1] # consumed[2]

\* the last n entries of a sequence
LastN(seq, n) == SubSeq(seq, Len(seq) - n + 1, Len(seq))

Min(a, b) == IF a <= b THEN a ELSE b

UpdateEntries == [i \in 1..Len(updates) |-> updates[i].entry]

UpdateEvents == [i \in 1..Len(updates) |-> <<updates[i].time, 1>>]

\* C6: after n calls of update, recent_logs holds the min(n, capacity) most
\* recently added records, oldest first, and the throughput window the
\* min(n, window_size) most recent events; neither exceeds its capacity.
C6_BoundedBuffers ==
    /\ recent_logs = LastN(UpdateEntries, Min(Len(updates), RecentMaxLen))
    /\ throughput = LastN(UpdateEvents, Min(Len(updates), WindowSize))
    /\ Len(recent_logs) <= RecentMaxLen
    /\ Len(throughput) <= WindowSize

\* C6 witness: more updates than either capacity, the evicted record and
\* event different from the newest ones.
C6_Witness ==
    /\ Len(updates) > RecentMaxLen
    /\ Len(updates) > WindowSize
    /\ updates[1].entry # updates[Len(updates)].entry
    /\ updates[1].time # updates[Len(updates)].time
    /\ Len(recent_logs) = RecentMaxLen

RecordFields == {"timestamp", "level", "service", "message"}

\* C7: every record passed to update has the four fields timestamp, level,
\* service and message, service being "unknown" when the active grammar has no
\* service group.
C7_AllFieldsPresent ==
    \A i \in 1..Len(updates) :
        /\ RecordFields \subseteq DOMAIN updates[i].entry
        /\ log_type \in {"apache", "nginx"} => updates[i].entry.service = unknown

\* a line that matches no grammar and holds no severity word
Unrecognised(line) ==
    /\ line.fmt = "none"
    /\ \A level \in SeverityNames : ~Contains(Upper(line.message), level)

\* C8: a line that matches no grammar and contains no severity keyword
\* (a blank line included) gives no record and no call of update: the whole
\* aggregate state is unchanged and the loop goes on to the next line.
C8_UnparseableDropped ==
    [][(/\ Len(consumed') = Len(consumed) + 1
        /\ Unrecognised(consumed'[Len(consumed')]))
       => (/\ UNCHANGED aggregateVars
           /\ UNCHANGED updates
           /\ tpc' = "while" /\ running')]_vars

\* C8 witness: a blank line and another unrecognised line were read and
\* dropped, and the line after them was counted.
C8_Witness ==
    /\ Len(consumed) = 3
    /\ Unrecognised(consumed[1]) /\ Strip(consumed[1].message) = <<>>
    /\ Unrecognised(consumed[2]) /\ Strip(consumed[2].message) # <<>>
    /\ Len(updates) = 1
    /\ log_count = 1

ProcessEnded == vpc \in {"exited", "crashed"}

\* the severity text typed at the prompt is outside the enumeration
OutsideEnumeration(text) == Upper(Strip(text)) \notin SeverityNames

\* C11: a severity text outside the enumeration typed at the severity prompt
\* of the filter editing leaves the whole filter as it was: threshold, service
\* filter, keyword filter and exclusions (the call is total, no error).
C11_InvalidSeverityIgnored ==
    [][(last_op'[1] = "prompt_severity" /\ OutsideEnumeration(last_op'[2]))
          => filter' = filter]_vars

\* C11 witness: a text outside the enumeration was typed while the filter had
\* a threshold, a service, a keyword and an exclusion other than the defaults.
C11_Witness ==
    /\ last_op[1] = "prompt_severity"
    /\ OutsideEnumeration(last_op[2])
    /\ last_op[2] # <<>>
    /\ filter.severity_threshold = ERROR
    /\ Truthy(filter.service_filter)
    /\ Truthy(filter.keyword_filter)
    /\ filter.exclude_keywords # <<>>

counterVars == <<log_count, error_count, warning_count, service_stats,
                 level_stats>>

StatsZero ==
    /\ log_count = 0 /\ error_count = 0 /\ warning_count = 0
    /\ level_stats = <<>> /\ service_stats = <<>>

\* no key of a tally disappears and no count of it gets smaller
TallyNotDecreased(before, after) ==
    \A k \in DOMAIN before : k \in DOMAIN after /\ after[k] >= before[k]

\* the ingestion thread is inside PerformanceStats.update
InUpdate ==
    tpc \in {"upd_log_count", "upd_recent_logs", "upd_level_stats",
             "upd_service_stats", "upd_buckets", "upd_throughput"}

\* C12: log_count, error_count, warning_count and every per-severity and
\* per-service tally start at zero, never decrease in any step of the system,
\* and change only in a step of PerformanceStats.update.
C12_CountersMonotonic ==
    /\ StatsZero
    /\ [][/\ log_count' >= log_count
          /\ error_count' >= error_count
          /\ warning_count' >= warning_count
          /\ TallyNotDecreased(level_stats, level_stats')
          /\ TallyNotDecreased(service_stats, service_stats')
          /\ (counterVars' # counterVars => InUpdate)]_vars

\* C12 witness: two records were counted, one an error and one a warning, a
\* line was held back by a pause, the filter was edited, and the viewer has
\* stopped and left.
C12_Witness ==
    /\ log_count = 2 /\ error_count = 1 /\ warning_count = 1
    /\ held_back
    /\ filter.service_filter = t_sshd
    /\ ~running /\ vpc = "exited"

\* stop_monitoring has cleared the running flag
Stopped == stop_lines # -1

LoopEnded == tpc \in {"done", "dead"}

\* C13: once the stop flag is set the viewer loop has been left, the ingestion
\* loop leaves at its next test of the flag, having read at most one more line
\* (the one of the iteration in progress), and, scheduled fairly, it ends
\* (at the latest with the process), paused or not.
C13_StopEndsBothLoops ==
    /\ [](Stopped => (~running /\ vpc \in {"join", "exited"}))
    /\ [][(Stopped /\ tpc = "while" /\ tpc' # tpc) => tpc' = "done"]_vars
    /\ [](Stopped => Len(consumed) <= stop_lines + 1)
    /\ Stopped ~> (LoopEnded \/ vpc = "exited")

\* C13 witness: the flag was set while the loop was paused with a line
\* waiting, and the loop has ended on its own without reading it.
C13_Witness ==
    /\ Stopped /\ paused
    /\ tpc = "done" /\ vpc = "join"
    /\ Len(consumed) = stop_lines /\ offset < Len(file)

\* C13 witness of the iteration in progress: the loop read one line after the
\* flag was set and then ended.
C13_WitnessInProgress ==
    /\ Stopped /\ tpc = "done"
    /\ Len(consumed) = stop_lines + 1

\* the loop is at the top of an iteration: at the test of running or of paused
AtPoll == tpc \in {"while", "if_paused"}

\* C14: while the paused flag is set, from the viewer setting it until the
\* viewer clearing it, no step of the running loop changes the read offset,
\* the lines read or the aggregate state.
C14_PausedNothingConsumed ==
    [][(paused /\ paused' /\ tpc # "open")
          => UNCHANGED <<offset, consumed, aggregateVars>>]_vars

\* C14 as the code has it: the flag takes effect at the loop's next test of it.
\* After the flag is set the loop reads at most one more line, that of the
\* iteration already past the test, and once it is back at the top of an
\* iteration it stays there, alive, changing neither the read offset nor the
\* aggregate state until the flag is cleared or the loop is stopped.
C14_PauseFromNextPoll ==
    /\ [](paused => Len(consumed) <= pause_lines + 1)
    /\ [][(paused /\ paused' /\ AtPoll)
            => (/\ UNCHANGED <<offset, consumed, aggregateVars>>
                /\ (AtPoll' \/ (tpc' = "done" /\ ~running)))]_vars

\* C14 witness: the iteration in progress read and counted one line after the
\* flag was set, and the loop is back at its poll with the next line waiting.
C14_Witness ==
    /\ paused /\ running
    /\ Len(consumed) = pause_lines + 1
    /\ log_count = Len(consumed)
    /\ AtPoll
    /\ offset < Len(file)

\* for each line written and each format, whether the line can be classified:
\* it matches the grammar of the format or holds a severity word
Classifiable ==
    [line \in SampleLines, type \in LogTypes |->
        match(type, line) \/ HasLevelKeyword(RawText(line))]

\* the lines read so far that can be classified
ClassifiedLines ==
    {i \in 1..Len(consumed) : Classifiable[consumed[i], log_type]}

\* the viewer evaluates matches_filter in its next step
EvaluatesFilter == vpc = "logs_iter" /\ it.index < Len(recent_logs)

\* C15: the filter never affects aggregation: at the end of every iteration
\* of the loop log_count is the number of classified lines read, whatever the
\* filter has been, and no step that changes the filter or evaluates
\* matches_filter changes a counter, a tally or a buffer.
C15_FilterNeverAffectsAggregation ==
    /\ [](tpc \in {"while", "done"} => log_count = Cardinality(ClassifiedLines))
    /\ [][filter' # filter => UNCHANGED aggregateVars]_vars
    /\ [][(EvaluatesFilter /\ it' # it) => UNCHANGED aggregateVars]_vars

\* C15 witness: two records were counted and are in recent_logs, and the
\* viewer, with an edited filter, has evaluated matches_filter on both and
\* found that neither passes.
C15_Witness ==
    /\ log_count = 2 /\ Len(recent_logs) = 2
    /\ filter.service_filter = t_sshd
    /\ vpc = "logs_iter" /\ it.index = 2 /\ it.state = recent_logs_state
    /\ display_logs = <<>>

\* a fraction <<numerator, denominator>> has the value n
FractionIs(r, n) == r[2] # 0 /\ r[1] = n * r[2]

\* C16: get_error_rate divides by no zero, returns exactly 0 when log_count is
\* 0 and otherwise error_count * 100 / log_count (30 for log_count = 10 and
\* error_count = 3), and after any sequence of updates lies between 0 and 100.
C16_ErrorRate ==
    LET r == get_error_rate(log_count, error_count)
    IN /\ r[2] # 0
       /\ log_count = 0 => FractionIs(r, 0)
       /\ log_count # 0 => r[1] * log_count = error_count * 100 * r[2]
       /\ 0 <= r[1] /\ r[1] <= 100 * r[2]
       /\ FractionIs(get_error_rate(10, 3), 30)
       /\ FractionIs(get_error_rate(0, 0), 0)

\* C16 witness: three updates, one of them an error, one a warning: a rate
\* that is neither 0 nor 100.
C16_Witness ==
    /\ log_count = 3 /\ error_count = 1 /\ warning_count = 1
    /\ Len(updates) = 3

\* the uppercased severity of the record the latest update was called with
LatestLevel(history) == EntryLevel(history[Len(history)].entry)

\* C17: after any sequence of completed updates error_count is the sum of the
\* tallies of ERROR, CRITICAL, ALERT and EMERGENCY, warning_count is the tally
\* of WARNING, log_count is the sum of the per-severity tallies and of the
\* per-service tallies (so error_count + warning_count <= log_count), and an
\* update with any other severity changes neither bucket.
C17_BucketsMatchTallies ==
    /\ [](/\ StatsConsistent
          /\ error_count + warning_count <= log_count
          /\ log_count = Len(updates))
    /\ [][(updates' # updates
            /\ LatestLevel(updates') \notin ErrorLevels \cup {WARNING})
           => UNCHANGED <<error_count, warning_count>>]_vars

\* C17 witness: a warning that came in lower case, an ALERT and an INFO record
\* were counted.
C17_Witness ==
    /\ log_count = 3 /\ error_count = 1 /\ warning_count = 1
    /\ Tally(ALERT) = 1 /\ Tally(INFO) = 1
    /\ \E i \in 1..Len(updates) : updates[i].entry.level = t_warning

\* the line the step has just read
LineRead == consumed'[Len(consumed')]

\* a line outside the active grammar that holds a severity word
FallbackLine(line) ==
    /\ line.fmt # log_type
    /\ \E level \in SeverityNames : Contains(Upper(RawText(line)), level)

\* level is the first member, in the order of the table, found in the text
FirstInTableOrder(level, text) ==
    \E k \in 1..Len(severity_levels) :
        /\ level = severity_levels[k]
        /\ Contains(Upper(text), severity_levels[k])
        /\ \A j \in 1..(k - 1) : ~Contains(Upper(text), severity_levels[j])

\* C18: a line that does not match the active grammar but contains a severity
\* keyword gives a record whose level is the first enumeration member, in the
\* order EMERGENCY, ALERT, CRITICAL, ERROR, WARNING, NOTICE, INFO, DEBUG (not
\* the order in the line), whose text occurs in the uppercased line, whose
\* service is "unknown" and whose message is the trimmed line.
C18_FallbackTableOrder ==
    [][(Len(consumed') = Len(consumed) + 1 /\ FallbackLine(LineRead))
       => /\ Len(updates') = Len(updates) + 1
          /\ LET record == updates'[Len(updates')].entry
             IN /\ DOMAIN record = RecordFields
                /\ FirstInTableOrder(record.level, RawText(LineRead))
                /\ record.service = unknown
                /\ record.message = Strip(RawText(LineRead))]_vars

\* C18 witness: the line " debug alert " was recorded as ALERT, the later word
\* in the line and the earlier in the table, with the trimmed line as message.
C18_Witness ==
    \E i \in 1..Len(updates) :
        /\ updates[i].entry.level = ALERT
        /\ updates[i].entry.service = unknown
        /\ updates[i].entry.message = Strip(t_debug_alert)
        /\ updates[i].entry.message # t_debug_alert

\* the service, keyword and exclusion stages, written from the filter's fields
OtherGates(f, e) ==
    LET service == Lower(Get(e, "service", <<>>))
        message == Lower(Get(e, "message", <<>>))
    IN /\ Truthy(f.service_filter) => Contains(service, f.service_filter)
       /\ Truthy(f.keyword_filter) => Contains(message, f.keyword_filter)
       /\ ~\E i \in 1..Len(f.exclude_keywords) :
              Contains(message, f.exclude_keywords[i])

\* C19: for every threshold, a record whose severity text is not in the
\* enumeration is never rejected by the severity gate: matches_filter accepts
\* it exactly when the service, keyword and exclusion gates do.
C19_UnknownSeverityPasses ==
    (/\ last_op[1] = "matches_filter"
     /\ EntryLevel(last_op[2]) \notin SeverityNames)
    => (last_result <=> OtherGates(filter, last_op[2]))

\* C19 witness: under the threshold that lets the fewest levels through, with
\* a keyword gate active, a record of level "warn" was accepted.
C19_Witness ==
    /\ last_op[1] = "matches_filter"
    /\ EntryLevel(last_op[2]) \notin SeverityNames
    /\ filter.severity_threshold = DEBUG
    /\ Truthy(filter.keyword_filter)
    /\ last_result

\* every count of a tally is at most n
TallyAtMost(d, n) == \A k \in DOMAIN d : d[k] <= n

\* the viewer stopped on the ZeroDivisionError of draw_stats_view
ZeroDivision == vpc = "crashed" /\ "levels" \in DOMAIN snap

\* C20: in every reachable state, the middle of an update included, every
\* per-severity and per-service tally is at most log_count, so the percentages
\* count / log_count of the stats and services views, computed from tallies
\* read earlier, divide by no zero and do not exceed 100 percent.
C20_TalliesWithinLogCount ==
    /\ TallyAtMost(level_stats, log_count)
    /\ TallyAtMost(service_stats, log_count)
    /\ vpc = "stats_percentages" =>
          /\ TallyAtMost(snap.levels, log_count)
          /\ (\E k \in DOMAIN snap.levels : snap.levels[k] > 0) => log_count > 0
    /\ vpc = "services_percentages" => TallyAtMost(snap.services, log_count)
    /\ ~ZeroDivision

\* C20 witness: the viewer computes the percentages of tallies it has read
\* while the ingestion thread is inside an update, log_count raised and the
\* tallies not yet.
C20_Witness ==
    /\ vpc = "stats_percentages"
    /\ \E k \in DOMAIN snap.levels : snap.levels[k] > 0
    /\ tpc \in {"upd_recent_logs", "upd_level_stats"}
    /\ log_count = 2
    /\ SumValues(level_stats) = 1

\* C10: after a fatal error the ingestion loop neither retries nor updates
\* anything further, and the process, viewer loop included, eventually ends.
C10_FatalErrorEndsProcess ==
    /\ [][tpc = "dead" => (tpc' = "dead" /\ UNCHANGED aggregateVars)]_vars
    /\ (tpc = "dead") ~> ProcessEnded

====
